---------------------------- MODULE Spec2Model ----------------------------
(***************************************************************************)
(* Puzzle session controller of the chess puzzle trainer.                  *)
(*                                                                         *)
(* Two builds of the controller are modelled: the click controller of      *)
(* src/app.js and the drag controller of src/unnamed/part_000.  Both drive *)
(* a chess.js rules engine, modelled here by the rules of chess over the   *)
(* pieces the catalog's positions hold.                                    *)
(***************************************************************************)
EXTENDS Integers, Sequences, FiniteSets, TLC

(***************************************************************************)
(* Rules engine (chess.js): squares, pieces, FEN                           *)
(***************************************************************************)

\* A square is file + 8*rank, files a..h = 0..7, ranks 1..8 = 0..7.
Squares == 0 .. 63

\* The value of a square variable that holds no square (null).
NoSquare == -1

\* Sq(f, r): the square on file f (1 = a .. 8 = h) and rank r (1..8).
Sq(f, r) == (f - 1) + 8 * (r - 1)

File(s) == s % 8

Rank(s) == s \div 8

Abs(x) == IF x < 0 THEN -x ELSE x

Sgn(x) == IF x < 0 THEN -1 ELSE IF x > 0 THEN 1 ELSE 0

Max(x, y) == IF x >= y THEN x ELSE y

\* game.get(square) of an empty square (null).
NoPiece == [color |-> "-", type |-> "-"]

Swap(c) == IF c = "w" THEN "b" ELSE "w"

\* The piece a FEN placement letter stands for.
FenPiece(ch) ==
  CASE ch = "p" -> [color |-> "b", type |-> "p"]
    [] ch = "r" -> [color |-> "b", type |-> "r"]
    [] ch = "n" -> [color |-> "b", type |-> "n"]
    [] ch = "b" -> [color |-> "b", type |-> "b"]
    [] ch = "q" -> [color |-> "b", type |-> "q"]
    [] ch = "k" -> [color |-> "b", type |-> "k"]
    [] ch = "P" -> [color |-> "w", type |-> "p"]
    [] ch = "R" -> [color |-> "w", type |-> "r"]
    [] ch = "N" -> [color |-> "w", type |-> "n"]
    [] ch = "B" -> [color |-> "w", type |-> "b"]
    [] ch = "Q" -> [color |-> "w", type |-> "q"]
    [] ch = "K" -> [color |-> "w", type |-> "k"]

FenDigits == {"1", "2", "3", "4", "5", "6", "7", "8"}

FenDigit(ch) ==
  CASE ch = "1" -> 1 [] ch = "2" -> 2 [] ch = "3" -> 3 [] ch = "4" -> 4
    [] ch = "5" -> 5 [] ch = "6" -> 6 [] ch = "7" -> 7 [] ch = "8" -> 8

EmptyBoard == [s \in Squares |-> NoPiece]

\* The placement field of a FEN, read as chess.js load() reads it: from a8
\* rightwards, "/" starts the next rank down, a digit skips that many squares.
RECURSIVE ParsePlacement(_, _, _, _, _)
ParsePlacement(chars, i, f, r, b) ==
  IF i > Len(chars) THEN b
  ELSE IF chars[i] = "/" THEN ParsePlacement(chars, i + 1, 1, r - 1, b)
  ELSE IF chars[i] \in FenDigits
         THEN ParsePlacement(chars, i + 1, f + FenDigit(chars[i]), r, b)
  ELSE ParsePlacement(chars, i + 1, f + 1, r,
                      [b EXCEPT ![Sq(f, r)] = FenPiece(chars[i])])

\* The square load() records for the king of a color as it places the pieces.
KingSquare(b, color) ==
  IF \E s \in Squares : b[s] = [color |-> color, type |-> "k"]
    THEN CHOOSE s \in Squares : b[s] = [color |-> color, type |-> "k"]
    ELSE NoSquare

\* A FEN is the sequence of its space-separated fields; the placement field is
\* the sequence of its characters.  chess.js validate_fen accepts a FEN of
\* exactly six fields only.
ValidFen(fen) == Len(fen) = 6

\* new Chess(fen): load(fen) returns early on a FEN validate_fen rejects and
\* leaves the engine as constructed: empty board, white to move.
Chess(fen) ==
  IF ValidFen(fen)
    THEN LET b == ParsePlacement(fen[1], 1, 1, 8, EmptyBoard)
         IN [board |-> b,
             kings |-> [c \in {"w", "b"} |-> KingSquare(b, c)],
             turn |-> fen[2], ep |-> NoSquare, history |-> 0]
    ELSE [board |-> EmptyBoard,
          kings |-> [c \in {"w", "b"} |-> NoSquare],
          turn |-> "w", ep |-> NoSquare, history |-> 0]

(***************************************************************************)
(* Rules engine: attacks, legal moves, applying a move                     *)
(***************************************************************************)

\* The squares strictly between from and to, on one line, are empty.
Clear(b, from, to) ==
  LET df == File(to) - File(from)
      dr == Rank(to) - Rank(from)
      n == Max(Abs(df), Abs(dr))
      step == Sgn(df) + 8 * Sgn(dr)
  IN \A k \in 1 .. (n - 1) : b[from + k * step] = NoPiece

\* The piece on from attacks the square to.
Attacks(b, from, to) ==
  LET p == b[from]
      df == File(to) - File(from)
      dr == Rank(to) - Rank(from)
      diag == Abs(df) = Abs(dr) /\ df # 0
      line == (df = 0 \/ dr = 0) /\ from # to
  IN CASE p.type = "p" -> dr = (IF p.color = "w" THEN 1 ELSE -1) /\ Abs(df) = 1
       [] p.type = "n" -> {Abs(df), Abs(dr)} = {1, 2}
       [] p.type = "k" -> Max(Abs(df), Abs(dr)) = 1
       [] p.type = "b" -> diag /\ Clear(b, from, to)
       [] p.type = "r" -> line /\ Clear(b, from, to)
       [] p.type = "q" -> (diag \/ line) /\ Clear(b, from, to)
       [] OTHER -> FALSE

\* attacked(color, square): some piece of that color attacks the square.
Attacked(b, color, sq) ==
  \E s \in Squares : b[s].color = color /\ Attacks(b, s, sq)

\* king_attacked(color): the engine keeps the square of each king; one that
\* holds no king of that color finds no attacker.
KingAttacked(g, color) ==
  /\ g.kings[color] # NoSquare
  /\ Attacked(g.board, Swap(color), g.kings[color])

\* The first and the last rank of a pawn of that color.
PawnStart(color) == IF color = "w" THEN 1 ELSE 6

PawnLast(color) == IF color = "w" THEN 7 ELSE 0

PawnDir(color) == IF color = "w" THEN 8 ELSE -8

\* generate_moves before the legality filter: the piece on from may go to to.
\* No catalog FEN grants a castling right, so no castling move is generated.
PseudoLegal(g, from, to) ==
  LET b == g.board
      p == b[from]
  IN /\ p.color = g.turn
     /\ b[to].color # p.color
     /\ IF p.type = "p"
          THEN \/ /\ to = from + PawnDir(p.color)
                  /\ b[to] = NoPiece
               \/ /\ to = from + 2 * PawnDir(p.color)
                  /\ Rank(from) = PawnStart(p.color)
                  /\ b[from + PawnDir(p.color)] = NoPiece
                  /\ b[to] = NoPiece
               \/ /\ Attacks(b, from, to)
                  /\ (b[to] # NoPiece \/ to = g.ep)
          ELSE Attacks(b, from, to)

\* make_move: the engine after the move from -> to, a pawn that reaches its
\* last rank promoted to a queen (promotion: 'q').
MakeMove(g, from, to) ==
  LET b == g.board
      p == b[from]
      enPassant == p.type = "p" /\ to = g.ep
      placed == IF p.type = "p" /\ Rank(to) = PawnLast(p.color)
                  THEN [color |-> p.color, type |-> "q"] ELSE p
      b1 == [b EXCEPT ![from] = NoPiece, ![to] = placed]
      b2 == IF enPassant THEN [b1 EXCEPT ![to - PawnDir(p.color)] = NoPiece]
            ELSE b1
      bigPawn == p.type = "p" /\ Abs(to - from) = 16
  IN [board |-> b2,
      kings |-> IF p.type = "k" THEN [g.kings EXCEPT ![p.color] = to]
                ELSE g.kings,
      turn |-> Swap(g.turn),
      ep |-> IF bigPawn THEN from + PawnDir(p.color) ELSE NoSquare,
      history |-> g.history + 1]

\* A move of generate_moves({legal: true}): it does not leave the mover's king
\* attacked.
LegalMove(g, from, to) ==
  /\ PseudoLegal(g, from, to)
  /\ ~KingAttacked(MakeMove(g, from, to), g.turn)

\* game.moves({square, verbose: true}).map(m => m.to), as a set.
LegalDestinations(g, sq) == {t \in Squares : LegalMove(g, sq, t)}

\* game.moves().length === 0
NoLegalMoves(g) ==
  \A s \in Squares :
    g.board[s].color = g.turn => \A t \in Squares : ~LegalMove(g, s, t)

in_check(g) == KingAttacked(g, g.turn)

in_checkmate(g) == in_check(g) /\ NoLegalMoves(g)

in_stalemate(g) == ~in_check(g) /\ NoLegalMoves(g)

\* insufficient_material(): king against king, king and one minor piece
\* against king, or kings with bishops that all stand on one square color.
insufficient_material(g) ==
  LET pieces == {s \in Squares : g.board[s] # NoPiece}
      bishops == {s \in pieces : g.board[s].type = "b"}
      knights == {s \in pieces : g.board[s].type = "n"}
      n == Cardinality(pieces)
  IN \/ n = 2
     \/ n = 3 /\ (Cardinality(bishops) = 1 \/ Cardinality(knights) = 1)
     \/ /\ n = Cardinality(bishops) + 2
        /\ \E c \in {0, 1} :
              \A s \in bishops : (File(s) + Rank(s)) % 2 = c

\* game_over().  The hundred-half-move rule and threefold repetition need
\* more half-moves than a puzzle's ceiling lets a game last, so neither
\* disjunct is ever true here.
game_over(g) ==
  in_checkmate(g) \/ in_stalemate(g) \/ insufficient_material(g)

\* game.move({from, to, promotion: 'q'}): the move object and the engine
\* after it, or null and the engine untouched.  A target off the board names
\* no square.
move(g, from, to) ==
  IF from \in Squares /\ to \in Squares /\ LegalMove(g, from, to)
    THEN [ok |-> TRUE, game |-> MakeMove(g, from, to)]
    ELSE [ok |-> FALSE, game |-> g]

(***************************************************************************)
(* Puzzle catalog                                                          *)
(***************************************************************************)

FenElMolino ==
  <<"r", "1", "b", "q", "2", "r", "1", "/", "b", "4", "p", "k", "1", "/",
    "p", "1", "p", "p", "1", "p", "2", "/", "1", "p", "2", "p", "P", "2", "/",
    "1", "P", "2", "P", "1", "P", "B", "/", "3", "P", "4", "/",
    "1", "P", "P", "Q", "2", "P", "1", "/", "R", "3", "K", "2", "R">>

FenMateSimple ==
  <<"7", "k", "/", "5", "Q", "2", "/", "8", "/", "8", "/", "8", "/", "8", "/",
    "8", "/", "7", "K">>

FenDamaYRey ==
  <<"6", "k", "1", "/", "5", "p", "p", "p", "/", "8", "/", "8", "/", "8", "/",
    "8", "/", "5", "P", "P", "P", "/", "6", "K", "1">>

\* The catalog of the click controller.  JavaScript indexes it from 0, the
\* model reads entry index + 1.
puzzles ==
  << [name |-> "El Molino",
      fen |-> <<FenElMolino, "w", "-", "-", "0", "1">>,
      solution |-> <<"Qh6+", "Kxh6", "Bxf6#">>,
      side |-> "w", mateIn |-> 2,
      quote |-> "La estrategia es el arte de la batalla."],
     [name |-> "Mate simple",
      fen |-> <<FenMateSimple, "w", "-", "-", "0", "1">>,
      solution |-> <<"Qf8#">>,
      side |-> "w", mateIn |-> 1,
      quote |-> "Ver una jugada mas alla que tu oponente."],
     [name |-> "Dama y rey",
      fen |-> <<FenDamaYRey, "w", "-", "-", "0", "1">>,
      solution |-> <<"Kd2", "Kf1", "Qd8#">>,
      side |-> "w", mateIn |-> 3,
      quote |-> "La paciencia y la vision a largo plazo triunfan."] >>

\* The catalog of the drag controller: the FEN of its first puzzle stops
\* after the side to move.
puzzlesDrag ==
  << [name |-> "El Molino",
      fen |-> <<FenElMolino, "w">>,
      solution |-> <<"Qh6+", "Kxh6", "Bxf6#">>,
      side |-> "w", mateIn |-> 2,
      quote |-> "La estrategia es el arte de la batalla."],
     [name |-> "Mate simple",
      fen |-> <<FenMateSimple, "w", "-", "-", "0", "1">>,
      solution |-> <<"Qf8#">>,
      side |-> "w", mateIn |-> 1,
      quote |-> "Ver una jugada mas alla que tu oponente."],
     [name |-> "Dama y rey",
      fen |-> <<FenDamaYRey, "w", "-", "-", "0", "1">>,
      solution |-> <<"Kd2", "Kf1", "Qd8#">>,
      side |-> "w", mateIn |-> 3,
      quote |-> "La paciencia y la vision a largo plazo triunfan."] >>

(***************************************************************************)
(* Session state                                                           *)
(***************************************************************************)

VARIABLES
  build,               \* which controller runs: "click" or "drag"
  currentPuzzleIndex,  \* index of the active puzzle, from 0
  hintCount,           \* hints requested since the last load
  starsEarned,         \* star rating of the active puzzle
  game,                \* the rules engine instance
  selectedSquare,      \* click: the selected square, or NoSquare
  legalMoves,          \* click: destinations of the selected piece
  info,                \* text of #info
  stars,               \* text of #stars, a sequence of glyphs
  nextBtn,             \* style.display of #nextBtn
  progress,            \* text of #progress
  chessBoard,          \* what the board on screen shows
  alerts,              \* the alerts the last handler raised, in order
  renders,             \* click: the renderBoard calls of the last handler
  dragging,            \* drag: the square a piece is being dragged from
  snapping,            \* drag: a dropped piece has yet to settle
  last                 \* the last handler that ran, its input and result

vars == <<build, currentPuzzleIndex, hintCount, starsEarned, game,
          selectedSquare, legalMoves, info, stars, nextBtn, progress,
          chessBoard, alerts, renders, dragging, snapping, last>>

\* The session as one value, as the handlers read and write it.
Session ==
  [build |-> build,
   currentPuzzleIndex |-> currentPuzzleIndex, hintCount |-> hintCount,
   starsEarned |-> starsEarned, game |-> game,
   selectedSquare |-> selectedSquare, legalMoves |-> legalMoves,
   info |-> info, stars |-> stars, nextBtn |-> nextBtn,
   progress |-> progress, chessBoard |-> chessBoard, alerts |-> alerts,
   renders |-> renders]

\* The variables take the values of the session s on return of a handler.
Return(s) ==
  /\ build' = s.build
  /\ currentPuzzleIndex' = s.currentPuzzleIndex
  /\ hintCount' = s.hintCount
  /\ starsEarned' = s.starsEarned
  /\ game' = s.game
  /\ selectedSquare' = s.selectedSquare
  /\ legalMoves' = s.legalMoves
  /\ info' = s.info
  /\ stars' = s.stars
  /\ nextBtn' = s.nextBtn
  /\ progress' = s.progress
  /\ chessBoard' = s.chessBoard
  /\ alerts' = s.alerts
  /\ renders' = s.renders

\* A handler starts with nothing alerted and nothing rendered yet.
Enter(s) == [s EXCEPT !.alerts = <<>>, !.renders = 0]

Alert(s, a) == [s EXCEPT !.alerts = Append(@, a)]

\* ch.repeat(n)
RECURSIVE Repeat(_, _)
Repeat(ch, n) == IF n <= 0 THEN <<>> ELSE <<ch>> \o Repeat(ch, n - 1)

\* The catalog of the build the session runs.
Catalog(s) == IF s.build = "click" THEN puzzles ELSE puzzlesDrag

(***************************************************************************)
(* Puzzle lifecycle, hints and status of the click controller (src/app.js) *)
(***************************************************************************)

renderBoard(s) ==
  [s EXCEPT !.renders = @ + 1,
            !.chessBoard =
               [position |-> s.game.board,
                highlight |-> (IF s.selectedSquare = NoSquare THEN {}
                               ELSE {s.selectedSquare}) \cup s.legalMoves]]

\* loadPuzzle writing the star text from the rating it is about to reset.
loadPuzzleStaleStars(s, index) ==
  LET puzzle == puzzles[index + 1]
      s1 == [s EXCEPT !.hintCount = 0,
                      !.starsEarned = 3,
                      !.game = Chess(puzzle.fen),
                      !.selectedSquare = NoSquare,
                      !.legalMoves = {}]
      s2 == renderBoard(s1)
  IN [s2 EXCEPT !.info = [nivel |-> index + 1, name |-> puzzle.name,
                          mateEn |-> puzzle.mateIn],
                !.stars = Repeat("filled", s.starsEarned)
                            \o Repeat("empty", 3 - s.starsEarned),
                !.nextBtn = "none"]

\* loadPuzzle leaving the hint counter as the last puzzle left it.
loadPuzzleKeepsHints(s, index) ==
  LET puzzle == puzzles[index + 1]
      s1 == [s EXCEPT !.starsEarned = 3,
                      !.game = Chess(puzzle.fen),
                      !.selectedSquare = NoSquare,
                      !.legalMoves = {}]
      s2 == renderBoard(s1)
  IN [s2 EXCEPT !.info = [nivel |-> index + 1, name |-> puzzle.name,
                          mateEn |-> puzzle.mateIn],
                !.stars = <<"filled", "filled", "filled">>,
                !.nextBtn = "none"]

\* loadPuzzle leaving the advance control as it finds it.
loadPuzzleKeepsNext(s, index) ==
  LET puzzle == puzzles[index + 1]
      s1 == [s EXCEPT !.hintCount = 0,
                      !.starsEarned = 3,
                      !.game = Chess(puzzle.fen),
                      !.selectedSquare = NoSquare,
                      !.legalMoves = {}]
      s2 == renderBoard(s1)
  IN [s2 EXCEPT !.info = [nivel |-> index + 1, name |-> puzzle.name,
                          mateEn |-> puzzle.mateIn],
                !.stars = <<"filled", "filled", "filled">>]

loadPuzzle(s, index) ==
  LET puzzle == puzzles[index + 1]
      s1 == [s EXCEPT !.hintCount = 0,
                      !.starsEarned = 3,
                      !.game = Chess(puzzle.fen),
                      !.selectedSquare = NoSquare,
                      !.legalMoves = {}]
      s2 == renderBoard(s1)
  IN [s2 EXCEPT !.info = [nivel |-> index + 1, name |-> puzzle.name,
                          mateEn |-> puzzle.mateIn],
                !.stars = <<"filled", "filled", "filled">>,
                !.nextBtn = "none"]

\* loadPuzzle of the drag controller: the old board widget is destroyed and a
\* new one shows the placement field of the puzzle's FEN.
loadPuzzleDrag(s, index) ==
  LET puzzle == puzzlesDrag[index + 1]
      s1 == [s EXCEPT !.hintCount = 0,
                      !.starsEarned = 3,
                      !.game = Chess(puzzle.fen)]
      s2 == [s1 EXCEPT !.chessBoard =
                          [position |-> ParsePlacement(puzzle.fen[1], 1, 1, 8,
                                                       EmptyBoard),
                           highlight |-> {}]]
  IN [s2 EXCEPT !.info = [nivel |-> index + 1, name |-> puzzle.name,
                          mateEn |-> puzzle.mateIn],
                !.stars = <<"filled", "filled", "filled">>,
                !.nextBtn = "none"]

\* The loadPuzzle of the session's build.
LoadPuzzle(s, index) ==
  IF s.build = "click" THEN loadPuzzle(s, index) ELSE loadPuzzleDrag(s, index)

\* showHint with the floor of one star forgotten.
showHintNoFloor(s) ==
  LET puzzle == Catalog(s)[s.currentPuzzleIndex + 1]
  IN IF s.hintCount >= Len(puzzle.solution) THEN s
     ELSE LET hintMove == puzzle.solution[s.hintCount + 1]
              s1 == Alert(s, [kind |-> "asesoria", text |-> hintMove,
                             quote |-> ""])
              s2 == [s1 EXCEPT !.hintCount = @ + 1]
              s3 == [s2 EXCEPT !.starsEarned = 3 - s2.hintCount]
          IN [s3 EXCEPT !.stars = Repeat("filled", s3.starsEarned)
                                    \o Repeat("empty", 3 - s3.starsEarned)]

\* showHint with the exhaustion test off by one (> for >=): reading past the
\* end of the solution yields undefined.
showHintOffByOne(s) ==
  LET puzzle == Catalog(s)[s.currentPuzzleIndex + 1]
  IN IF s.hintCount > Len(puzzle.solution) THEN s
     ELSE LET hintMove == IF s.hintCount < Len(puzzle.solution)
                            THEN puzzle.solution[s.hintCount + 1]
                            ELSE "undefined"
              s1 == Alert(s, [kind |-> "asesoria", text |-> hintMove,
                             quote |-> ""])
              s2 == [s1 EXCEPT !.hintCount = @ + 1]
              s3 == [s2 EXCEPT !.starsEarned = Max(1, 3 - s2.hintCount)]
          IN [s3 EXCEPT !.stars = Repeat("filled", s3.starsEarned)
                                    \o Repeat("empty", 3 - s3.starsEarned)]

\* showHint counting the hint before it reads the move to disclose.
showHintCountsFirst(s) ==
  LET puzzle == Catalog(s)[s.currentPuzzleIndex + 1]
  IN IF s.hintCount >= Len(puzzle.solution) THEN s
     ELSE LET s1 == [s EXCEPT !.hintCount = @ + 1]
              hintMove == IF s1.hintCount < Len(puzzle.solution)
                            THEN puzzle.solution[s1.hintCount + 1]
                            ELSE "undefined"
              s2 == Alert(s1, [kind |-> "asesoria", text |-> hintMove,
                               quote |-> ""])
              s3 == [s2 EXCEPT !.starsEarned = Max(1, 3 - s2.hintCount)]
          IN [s3 EXCEPT !.stars = Repeat("filled", s3.starsEarned)
                                    \o Repeat("empty", 3 - s3.starsEarned)]

\* showHint is the same text in both controllers.
showHint(s) ==
  LET puzzle == Catalog(s)[s.currentPuzzleIndex + 1]
  IN IF s.hintCount >= Len(puzzle.solution) THEN s
     ELSE LET hintMove == puzzle.solution[s.hintCount + 1]
              s1 == Alert(s, [kind |-> "asesoria", text |-> hintMove,
                             quote |-> ""])
              s2 == [s1 EXCEPT !.hintCount = @ + 1]
              s3 == [s2 EXCEPT !.starsEarned = Max(1, 3 - s2.hintCount)]
          IN [s3 EXCEPT !.stars = Repeat("filled", s3.starsEarned)
                                    \o Repeat("empty", 3 - s3.starsEarned)]

\* updateStatus with the ceiling test off by one the late way.
updateStatusLate(s) ==
  LET s1 == renderBoard(s)
      puzzle == puzzles[s1.currentPuzzleIndex + 1]
  IN IF in_checkmate(s1.game)
       THEN [Alert(s1, [kind |-> "resuelto", text |-> puzzle.name,
                        quote |-> puzzle.quote])
               EXCEPT !.nextBtn = "inline-block"]
       ELSE LET maxPlies == puzzle.mateIn * 2
            IN IF s1.game.history > maxPlies + 1
                 THEN loadPuzzle(Alert(s1, [kind |-> "reiniciando",
                                            text |-> "", quote |-> ""]),
                                 s1.currentPuzzleIndex)
                 ELSE s1

\* updateStatus with the ceiling test off by one the early way (>= for >).
updateStatusEarly(s) ==
  LET s1 == renderBoard(s)
      puzzle == puzzles[s1.currentPuzzleIndex + 1]
  IN IF in_checkmate(s1.game)
       THEN [Alert(s1, [kind |-> "resuelto", text |-> puzzle.name,
                        quote |-> puzzle.quote])
               EXCEPT !.nextBtn = "inline-block"]
       ELSE LET maxPlies == puzzle.mateIn * 2
            IN IF s1.game.history >= maxPlies
                 THEN loadPuzzle(Alert(s1, [kind |-> "reiniciando",
                                            text |-> "", quote |-> ""]),
                                 s1.currentPuzzleIndex)
                 ELSE s1

\* updateStatus testing the ceiling before it asks for checkmate.
updateStatusCeilingFirst(s) ==
  LET s1 == renderBoard(s)
      puzzle == puzzles[s1.currentPuzzleIndex + 1]
      maxPlies == puzzle.mateIn * 2
  IN IF s1.game.history > maxPlies
       THEN loadPuzzle(Alert(s1, [kind |-> "reiniciando", text |-> "",
                                  quote |-> ""]),
                       s1.currentPuzzleIndex)
       ELSE IF in_checkmate(s1.game)
              THEN [Alert(s1, [kind |-> "resuelto", text |-> puzzle.name,
                        quote |-> puzzle.quote])
                      EXCEPT !.nextBtn = "inline-block"]
              ELSE s1

updateStatus(s) ==
  LET s1 == renderBoard(s)
      puzzle == puzzles[s1.currentPuzzleIndex + 1]
  IN IF in_checkmate(s1.game)
       THEN [Alert(s1, [kind |-> "resuelto", text |-> puzzle.name,
                        quote |-> puzzle.quote])
               EXCEPT !.nextBtn = "inline-block"]
       ELSE LET maxPlies == puzzle.mateIn * 2
            IN IF s1.game.history > maxPlies
                 THEN loadPuzzle(Alert(s1, [kind |-> "reiniciando",
                                            text |-> "", quote |-> ""]),
                                 s1.currentPuzzleIndex)
                 ELSE s1

\* updateStatus of the drag controller renders nothing itself.
updateStatusDrag(s) ==
  LET puzzle == puzzlesDrag[s.currentPuzzleIndex + 1]
  IN IF in_checkmate(s.game)
       THEN [Alert(s, [kind |-> "resuelto", text |-> puzzle.name,
                        quote |-> puzzle.quote])
               EXCEPT !.nextBtn = "inline-block"]
       ELSE LET maxPlies == puzzle.mateIn * 2
            IN IF s.game.history > maxPlies
                 THEN loadPuzzleDrag(Alert(s, [kind |-> "reiniciando",
                                               text |-> "", quote |-> ""]),
                                     s.currentPuzzleIndex)
                 ELSE s

\* updateProgress and nextPuzzle are the same text in both controllers.
updateProgress(s) ==
  [s EXCEPT !.progress = [puzzle |-> s.currentPuzzleIndex + 1,
                          de |-> Len(Catalog(s))]]

\* nextPuzzle wrapping one entry early.
nextPuzzleWrapEarly(s) ==
  LET s1 == [s EXCEPT !.currentPuzzleIndex = @ + 1]
      s2 == IF s1.currentPuzzleIndex >= Len(Catalog(s)) - 1
              THEN [Alert(s1, [kind |-> "completado", text |-> "",
                          quote |-> ""])
                      EXCEPT !.currentPuzzleIndex = 0]
              ELSE s1
      s3 == updateProgress(s2)
  IN LoadPuzzle(s3, s3.currentPuzzleIndex)

\* nextPuzzle refreshing the progress indicator before it moves the index.
nextPuzzleProgressFirst(s) ==
  LET s0 == updateProgress(s)
      s1 == [s0 EXCEPT !.currentPuzzleIndex = @ + 1]
      s2 == IF s1.currentPuzzleIndex >= Len(Catalog(s))
              THEN [Alert(s1, [kind |-> "completado", text |-> "",
                          quote |-> ""])
                      EXCEPT !.currentPuzzleIndex = 0]
              ELSE s1
  IN LoadPuzzle(s2, s2.currentPuzzleIndex)

nextPuzzle(s) ==
  LET s1 == [s EXCEPT !.currentPuzzleIndex = @ + 1]
      s2 == IF s1.currentPuzzleIndex >= Len(Catalog(s))
              THEN [Alert(s1, [kind |-> "completado", text |-> "",
                          quote |-> ""])
                      EXCEPT !.currentPuzzleIndex = 0]
              ELSE s1
      s3 == updateProgress(s2)
  IN LoadPuzzle(s3, s3.currentPuzzleIndex)

(***************************************************************************)
(* Square interaction of the click controller (src/app.js)                 *)
(***************************************************************************)

\* handleSquareClick leaving the legal targets in place after a move.
handleSquareClickStaleAfterMove(s, clickedSquare) ==
  IF s.selectedSquare # NoSquare /\ clickedSquare \in s.legalMoves
    THEN LET m == move(s.game, s.selectedSquare, clickedSquare)
         IN IF m.ok
              THEN updateStatus([s EXCEPT !.game = m.game,
                                          !.selectedSquare = NoSquare])
              ELSE s
  ELSE IF s.selectedSquare = clickedSquare
    THEN renderBoard([s EXCEPT !.selectedSquare = NoSquare,
                               !.legalMoves = {}])
  ELSE LET piece == s.game.board[clickedSquare]
       IN IF piece # NoPiece /\ piece.color = s.game.turn
            THEN renderBoard(
                   [s EXCEPT !.selectedSquare = clickedSquare,
                             !.legalMoves =
                                LegalDestinations(s.game, clickedSquare)])
            ELSE renderBoard([s EXCEPT !.selectedSquare = NoSquare,
                                       !.legalMoves = {}])

\* handleSquareClick ignoring a click on an empty or foreign square.
handleSquareClickKeepsSelection(s, clickedSquare) ==
  IF s.selectedSquare # NoSquare /\ clickedSquare \in s.legalMoves
    THEN LET m == move(s.game, s.selectedSquare, clickedSquare)
         IN IF m.ok
              THEN updateStatus([s EXCEPT !.game = m.game,
                                          !.selectedSquare = NoSquare,
                                          !.legalMoves = {}])
              ELSE s
  ELSE IF s.selectedSquare = clickedSquare
    THEN renderBoard([s EXCEPT !.selectedSquare = NoSquare,
                               !.legalMoves = {}])
  ELSE LET piece == s.game.board[clickedSquare]
       IN IF piece # NoPiece /\ piece.color = s.game.turn
            THEN renderBoard(
                   [s EXCEPT !.selectedSquare = clickedSquare,
                             !.legalMoves =
                                LegalDestinations(s.game, clickedSquare)])
            ELSE renderBoard(s)

\* handleSquareClick giving up the selection before it asks the engine.
handleSquareClickClearsFirst(s, clickedSquare) ==
  IF s.selectedSquare # NoSquare /\ clickedSquare \in s.legalMoves
    THEN LET m == move(s.game, s.selectedSquare, clickedSquare)
             s1 == [s EXCEPT !.selectedSquare = NoSquare, !.legalMoves = {}]
         IN IF m.ok
              THEN updateStatus([s1 EXCEPT !.game = m.game])
              ELSE s1
  ELSE IF s.selectedSquare = clickedSquare
    THEN renderBoard([s EXCEPT !.selectedSquare = NoSquare,
                               !.legalMoves = {}])
  ELSE LET piece == s.game.board[clickedSquare]
       IN IF piece # NoPiece /\ piece.color = s.game.turn
            THEN renderBoard(
                   [s EXCEPT !.selectedSquare = clickedSquare,
                             !.legalMoves =
                                LegalDestinations(s.game, clickedSquare)])
            ELSE renderBoard([s EXCEPT !.selectedSquare = NoSquare,
                                       !.legalMoves = {}])

\* handleSquareClick deselecting without drawing the board again.
handleSquareClickDeselectSilent(s, clickedSquare) ==
  IF s.selectedSquare # NoSquare /\ clickedSquare \in s.legalMoves
    THEN LET m == move(s.game, s.selectedSquare, clickedSquare)
         IN IF m.ok
              THEN updateStatus([s EXCEPT !.game = m.game,
                                          !.selectedSquare = NoSquare,
                                          !.legalMoves = {}])
              ELSE s
  ELSE IF s.selectedSquare = clickedSquare
    THEN [s EXCEPT !.selectedSquare = NoSquare, !.legalMoves = {}]
  ELSE LET piece == s.game.board[clickedSquare]
       IN IF piece # NoPiece /\ piece.color = s.game.turn
            THEN renderBoard(
                   [s EXCEPT !.selectedSquare = clickedSquare,
                             !.legalMoves =
                                LegalDestinations(s.game, clickedSquare)])
            ELSE renderBoard([s EXCEPT !.selectedSquare = NoSquare,
                                       !.legalMoves = {}])

handleSquareClick(s, clickedSquare) ==
  IF s.selectedSquare # NoSquare /\ clickedSquare \in s.legalMoves
    THEN LET m == move(s.game, s.selectedSquare, clickedSquare)
         IN IF m.ok
              THEN updateStatus([s EXCEPT !.game = m.game,
                                          !.selectedSquare = NoSquare,
                                          !.legalMoves = {}])
              ELSE s
  ELSE IF s.selectedSquare = clickedSquare
    THEN renderBoard([s EXCEPT !.selectedSquare = NoSquare,
                               !.legalMoves = {}])
  ELSE LET piece == s.game.board[clickedSquare]
       IN IF piece # NoPiece /\ piece.color = s.game.turn
            THEN renderBoard(
                   [s EXCEPT !.selectedSquare = clickedSquare,
                             !.legalMoves =
                                LegalDestinations(s.game, clickedSquare)])
            ELSE renderBoard([s EXCEPT !.selectedSquare = NoSquare,
                                       !.legalMoves = {}])

(***************************************************************************)
(* Board callbacks of the drag controller (src/unnamed/part_000)           *)
(***************************************************************************)

\* onDragStart that does not ask the engine whether the game is over.
onDragStartIgnoresGameOver(s, source, piece) ==
  IF piece.color # s.game.turn THEN FALSE
  ELSE TRUE

\* onDragStart(source, piece): FALSE vetoes the drag.  piece is the piece the
\* board widget shows on source.
onDragStart(s, source, piece) ==
  IF game_over(s.game) THEN FALSE
  ELSE IF piece.color # s.game.turn THEN FALSE
  ELSE TRUE

\* onDrop(source, target): the session on return and the value returned.
onDrop(s, source, target) ==
  LET m == move(s.game, source, target)
  IN IF ~m.ok
       THEN [session |-> s, returned |-> "snapback"]
       ELSE [session |-> updateStatusDrag([s EXCEPT !.game = m.game]),
             returned |-> "undefined"]

\* onSnapEnd: board.position(game.fen())
onSnapEnd(s) ==
  [s EXCEPT !.chessBoard = [position |-> s.game.board, highlight |-> {}]]

(***************************************************************************)
(* Start of the program                                                    *)
(***************************************************************************)

\* The globals as declared, before init runs: no engine yet, and nothing
\* written to the page.
Declared(b) ==
  [build |-> b,
   currentPuzzleIndex |-> 0, hintCount |-> 0, starsEarned |-> 3,
   game |-> Chess(<<>>), selectedSquare |-> NoSquare, legalMoves |-> {},
   info |-> [nivel |-> 0, name |-> "", mateEn |-> 0], stars |-> <<>>,
   nextBtn |-> "", progress |-> [puzzle |-> 0, de |-> 0],
   chessBoard |-> [position |-> EmptyBoard, highlight |-> {}],
   alerts |-> <<>>, renders |-> 0]

init(s) == updateProgress(LoadPuzzle(s, s.currentPuzzleIndex))

(***************************************************************************)
(* The user's inputs                                                       *)
(***************************************************************************)

\* The squares the user clicks on or drags between, in the order the bound
\* admits them: those of the solutions and of short lines that miss the mate.
ProbeOrder ==
  <<Sq(4, 2), Sq(8, 6), Sq(7, 7), Sq(8, 4), Sq(6, 6), Sq(8, 1), Sq(7, 1),
    Sq(6, 7), Sq(7, 8), Sq(8, 8), Sq(6, 8), Sq(5, 2), Sq(7, 6), Sq(7, 2),
    Sq(7, 4), Sq(8, 7)>>

NumProbes == 10

ProbeSquares ==
  {ProbeOrder[k] : k \in 1 .. (IF NumProbes < Len(ProbeOrder) THEN NumProbes
                                ELSE Len(ProbeOrder))}

(***************************************************************************)
(* Specification                                                           *)
(***************************************************************************)

\* What last records of a handler: its name, its square arguments, and the
\* value it returned where it returns one.
Handler(op, square, target, returned) ==
  [op |-> op, square |-> square, target |-> target, returned |-> returned]

Init ==
  \E b \in {"click", "drag"} :
    LET s == init(Declared(b))
    IN /\ build = s.build
       /\ currentPuzzleIndex = s.currentPuzzleIndex
       /\ hintCount = s.hintCount
       /\ starsEarned = s.starsEarned
       /\ game = s.game
       /\ selectedSquare = s.selectedSquare
       /\ legalMoves = s.legalMoves
       /\ info = s.info
       /\ stars = s.stars
       /\ nextBtn = s.nextBtn
       /\ progress = s.progress
       /\ chessBoard = s.chessBoard
       /\ alerts = s.alerts
       /\ renders = s.renders
       /\ dragging = NoSquare
       /\ snapping = FALSE
       /\ last = Handler("init", NoSquare, NoSquare, "")

ShowHint ==
  /\ Return(showHint(Enter(Session)))
  /\ last' = Handler("showHint", NoSquare, NoSquare, "")
  /\ UNCHANGED <<dragging, snapping>>

\* nextPuzzle tests nothing itself: it runs on every click the advance
\* control receives, a scripted one on the hidden control included.
NextPuzzle ==
  /\ Return(nextPuzzle(Enter(Session)))
  /\ last' = Handler("nextPuzzle", NoSquare, NoSquare, "")
  /\ UNCHANGED <<dragging, snapping>>

HandleSquareClick ==
  /\ build = "click"
  /\ \E sq \in ProbeSquares :
       /\ Return(handleSquareClick(Enter(Session), sq))
       /\ last' = Handler("handleSquareClick", sq, NoSquare, "")
  /\ UNCHANGED <<dragging, snapping>>

\* The widget starts a drag on a square where it shows a piece, asks
\* onDragStart, and carries the piece only if that does not veto.
DragStart ==
  /\ build = "drag"
  /\ dragging = NoSquare
  /\ \E source \in ProbeSquares :
       /\ chessBoard.position[source] # NoPiece
       /\ LET allowed == onDragStart(Enter(Session), source,
                                     chessBoard.position[source])
          IN /\ Return(Enter(Session))
             /\ dragging' = IF allowed THEN source ELSE NoSquare
             /\ last' = Handler("onDragStart", source, NoSquare,
                                IF allowed THEN "undefined" ELSE "false")
  /\ UNCHANGED snapping

\* The widget's own position after a drop it keeps: the dragged piece stands
\* on the target, whatever stood there gone.
WidgetMove(position, source, target) ==
  [position EXCEPT ![source] = NoPiece, ![target] = position[source]]

\* The dragged piece is let go over a square or off the board; the widget
\* puts it back on a snapback and otherwise lets it settle on the target.  A
\* reload inside onDrop has put a new widget in place, which the drop on the
\* old one does not touch.
Drop ==
  /\ build = "drag"
  /\ dragging # NoSquare
  /\ \E target \in ProbeSquares \cup {NoSquare} :
       LET r == onDrop(Enter(Session), dragging, target)
           reloaded == \E k \in 1 .. Len(r.session.alerts) :
                          r.session.alerts[k].kind = "reiniciando"
           settled == IF r.returned = "snapback" \/ reloaded
                        THEN r.session
                        ELSE [r.session EXCEPT
                                !.chessBoard.position =
                                   WidgetMove(@, dragging, target)]
       IN /\ Return(settled)
          /\ snapping' = IF r.returned = "snapback" THEN snapping ELSE TRUE
          /\ last' = Handler("onDrop", dragging, target, r.returned)
  /\ dragging' = NoSquare

SnapEnd ==
  /\ build = "drag"
  /\ snapping
  /\ Return(onSnapEnd(Enter(Session)))
  /\ snapping' = FALSE
  /\ last' = Handler("onSnapEnd", NoSquare, NoSquare, "")
  /\ UNCHANGED dragging

Next ==
  \/ ShowHint
  \/ NextPuzzle
  \/ HandleSquareClick
  \/ DragStart
  \/ Drop
  \/ SnapEnd

Spec == Init /\ [][Next]_vars

(***************************************************************************)
(* Vocabulary of the properties                                            *)
(***************************************************************************)

ActivePuzzle == Catalog(Session)[currentPuzzleIndex + 1]

\* The position a catalog entry's FEN describes: its placement and its side
\* to move.
CatalogBoard(puzzle) == ParsePlacement(puzzle.fen[1], 1, 1, 8, EmptyBoard)

AtCatalogPosition(g, puzzle) ==
  /\ g.board = CatalogBoard(puzzle)
  /\ g.turn = puzzle.fen[2]
  /\ g.history = 0

Alerted(kind) == \E k \in 1 .. Len(alerts) : alerts[k].kind = kind

\* The handler that ran last ended in loadPuzzle.
LoadedLast ==
  last.op \in {"init", "nextPuzzle"} \/ Alerted("reiniciando")

\* This step is a move attempt: a click on a legal target of the selection,
\* or a drop.
MoveAttempt ==
  \/ /\ build = "click"
     /\ last'.op = "handleSquareClick"
     /\ selectedSquare # NoSquare
     /\ last'.square \in legalMoves
  \/ /\ build = "drag"
     /\ last'.op = "onDrop"

AttemptFrom == IF build = "click" THEN selectedSquare ELSE dragging

AttemptTo == IF build = "click" THEN last'.square ELSE last'.target

\* This step is a move attempt the engine accepts; AfterMove is the engine
\* right after the move, before post-move evaluation.
AcceptedMove == MoveAttempt /\ move(game, AttemptFrom, AttemptTo).ok

AfterMove == move(game, AttemptFrom, AttemptTo).game

Ceiling == ActivePuzzle.mateIn * 2

(***************************************************************************)
(* Properties                                                              *)
(***************************************************************************)

\* C1: in every reachable state the star rating is max(1, 3 - hints used);
\* a load leaves no hint used and each hint the pool still grants counts as
\* one, so h hints after a load leave the rating at max(1, 3 - h).
C1_StarsFromHints ==
  /\ [](starsEarned = Max(1, 3 - hintCount))
  /\ [](LoadedLast => hintCount = 0)
  /\ [][(last'.op = "showHint" /\ hintCount < Len(ActivePuzzle.solution))
         => hintCount' = hintCount + 1]_vars

\* C1 witness: three hints were requested and the rating sits on its floor.
C1_Witness ==
  last.op = "showHint" /\ hintCount = 3 /\ starsEarned = 1

\* C2: a hint request with the hint pool exhausted changes nothing of the
\* session and discloses nothing.
C2_ExhaustedHintNoOp ==
  [][(last'.op = "showHint" /\ hintCount = Len(ActivePuzzle.solution))
       => /\ hintCount' = hintCount
          /\ starsEarned' = starsEarned
          /\ stars' = stars
          /\ alerts' = <<>>
          /\ UNCHANGED <<currentPuzzleIndex, game, selectedSquare,
                         legalMoves, info, nextBtn, progress, chessBoard>>]_vars

\* C2 witness: a hint request that disclosed nothing, pool exhausted.
C2_Witness ==
  /\ last.op = "showHint"
  /\ alerts = <<>>
  /\ hintCount = Len(ActivePuzzle.solution)

\* C3 (as claimed): right after loadPuzzle(i), no hints, three stars, nothing
\* selected, the advance control hidden, and the engine at the position of
\* catalog entry i with no half-move played.
C3_LoadResets ==
  LoadedLast =>
    /\ hintCount = 0
    /\ starsEarned = 3
    /\ selectedSquare = NoSquare
    /\ legalMoves = {}
    /\ nextBtn = "none"
    /\ AtCatalogPosition(game, ActivePuzzle)

\* C4 (as claimed): a click on a legal target of the selection leaves the
\* half-move count one greater and the selection empty.
C4_Original ==
  [][(/\ build = "click"
      /\ last'.op = "handleSquareClick"
      /\ selectedSquare # NoSquare
      /\ last'.square \in legalMoves)
       => /\ game'.history = game.history + 1
          /\ selectedSquare' = NoSquare
          /\ legalMoves' = {}]_vars

\* C4 (amended): a click on a legal target of the selection leaves the
\* selection empty, and the half-move count one greater unless the move took
\* it over the ceiling without checkmate, when the reload leaves it at 0.
C4_MoveOrReload ==
  [][(/\ build = "click"
      /\ last'.op = "handleSquareClick"
      /\ selectedSquare # NoSquare
      /\ last'.square \in legalMoves)
       => /\ selectedSquare' = NoSquare
          /\ legalMoves' = {}
          /\ IF game.history + 1 > Ceiling /\ ~in_checkmate(AfterMove)
               THEN game'.history = 0
               ELSE game'.history = game.history + 1]_vars

\* C4 witness: a click has just played the first half-move of a puzzle.
C4_Witness ==
  /\ build = "click"
  /\ last.op = "handleSquareClick"
  /\ game.history = 1
  /\ selectedSquare = NoSquare
  /\ legalMoves = {}

\* C5: an accepted move that takes the half-move count over mateIn * 2
\* without checkmate reloads the same puzzle.
C5_CeilingReloads ==
  [][(/\ AcceptedMove
      /\ AfterMove.history > Ceiling
      /\ ~in_checkmate(AfterMove))
       => /\ currentPuzzleIndex' = currentPuzzleIndex
          /\ hintCount' = 0
          /\ starsEarned' = 3
          /\ selectedSquare' = NoSquare
          /\ legalMoves' = {}
          /\ AtCatalogPosition(game', ActivePuzzle)]_vars

\* C5 witness: the last handler, a move, abandoned the attempt and reloaded.
C5_Witness ==
  /\ Alerted("reiniciando")
  /\ last.op \in {"handleSquareClick", "onDrop"}
  /\ game.history = 0
  /\ hintCount = 0

\* C6 (as claimed): a mate-in-2 puzzle never rests with 4 half-moves played
\* and no checkmate, the 4th half-move having reloaded it.
C6_Original ==
  ActivePuzzle.mateIn = 2 => ~(game.history = 4 /\ ~in_checkmate(game))

\* C6 (amended): in a mate-in-2 puzzle the 4th half-move is played without a
\* reload, and the 5th half-move, when it does not mate, reloads the puzzle
\* as part of its handling.
C6_FifthHalfMoveReloads ==
  [][(ActivePuzzle.mateIn = 2 /\ AcceptedMove)
       => /\ game.history = 3 => game' = AfterMove
          /\ (game.history = 4 /\ ~in_checkmate(AfterMove))
               => /\ AtCatalogPosition(game', ActivePuzzle)
                  /\ Alerted("reiniciando")']_vars

\* C6 witness: El Molino reloaded by a move, in the click controller.
C6_Witness ==
  /\ ActivePuzzle.name = "El Molino"
  /\ Alerted("reiniciando")
  /\ last.op = "handleSquareClick"
  /\ AtCatalogPosition(game, ActivePuzzle)

\* C7: an accepted move that mates raises the success notification, shows
\* the advance control, and neither reloads nor advances, whatever the
\* half-move count.
C7_MateSolves ==
  [][(AcceptedMove /\ in_checkmate(AfterMove))
       => /\ alerts' = <<[kind |-> "resuelto", text |-> ActivePuzzle.name,
                           quote |-> ActivePuzzle.quote]>>
          /\ nextBtn' = "inline-block"
          /\ game' = AfterMove
          /\ hintCount' = hintCount
          /\ starsEarned' = starsEarned
          /\ currentPuzzleIndex' = currentPuzzleIndex]_vars

\* C7 witness: a puzzle solved by a half-move beyond its ceiling.
C7_Witness ==
  /\ Alerted("resuelto")
  /\ nextBtn = "inline-block"
  /\ in_checkmate(game)
  /\ game.history > Ceiling

\* C8: the index stays within the catalog; advancing goes to the next entry,
\* or from the last one back to the first with the completion notice and
\* only then, and loads the puzzle it arrives at.
C8_AdvanceWraps ==
  /\ [](currentPuzzleIndex \in 0 .. (Len(Catalog(Session)) - 1))
  /\ [][last'.op = "nextPuzzle"
         => /\ currentPuzzleIndex' =
                 IF currentPuzzleIndex = Len(Catalog(Session)) - 1 THEN 0
                 ELSE currentPuzzleIndex + 1
            /\ Alerted("completado")'
                 <=> currentPuzzleIndex = Len(Catalog(Session)) - 1
            /\ game' = Chess(ActivePuzzle'.fen)
            /\ info'.nivel = currentPuzzleIndex' + 1
            /\ info'.name = ActivePuzzle'.name
            /\ hintCount' = 0
            /\ starsEarned' = 3
            /\ nextBtn' = "none"]_vars

\* C8 witness: the advance from the last entry, back at the first.
C8_Witness ==
  /\ last.op = "nextPuzzle"
  /\ currentPuzzleIndex = 0
  /\ Alerted("completado")

\* C9: a click on a square that is empty or holds a piece of the side not to
\* move leaves nothing selected and no legal targets.
C9_ForeignSquareIdles ==
  [][(/\ build = "click"
      /\ last'.op = "handleSquareClick"
      /\ \/ game.board[last'.square] = NoPiece
         \/ game.board[last'.square].color # game.turn)
       => /\ selectedSquare' = NoSquare
          /\ legalMoves' = {}]_vars

\* C9 witness: a click on an empty square that was no move: nothing played
\* since the load, nothing reloaded.
C9_Witness ==
  /\ last.op = "handleSquareClick"
  /\ game.board[last.square] = NoPiece
  /\ game.history = 0
  /\ alerts = <<>>
  /\ selectedSquare = NoSquare

\* The session state a load decides.
Loaded(s) ==
  [hintCount |-> s.hintCount, starsEarned |-> s.starsEarned,
   game |-> s.game, selectedSquare |-> s.selectedSquare,
   legalMoves |-> s.legalMoves, info |-> s.info, stars |-> s.stars,
   nextBtn |-> s.nextBtn, chessBoard |-> s.chessBoard]

\* C10: loading a puzzle twice in succession leaves the session as loading
\* it once does, from every reachable state and for every index.
C10_LoadIdempotent ==
  \A i \in 0 .. (Len(Catalog(Session)) - 1) :
    Loaded(LoadPuzzle(LoadPuzzle(Session, i), i))
      = Loaded(LoadPuzzle(Session, i))

\* C10 witness: a state a load changes in every respect: hints used, a
\* half-move played, the advance control shown.
C10_Witness ==
  /\ hintCount > 0
  /\ starsEarned < 3
  /\ game.history > 0
  /\ nextBtn = "inline-block"

\* C11: the star rating is at least 1 in every reachable state, and no step
\* that does not end in a puzzle load (a hint request, a square interaction
\* that moves or not, a drag callback) raises it.
C11_StarsNeverRise ==
  /\ [](starsEarned >= 1)
  /\ [][~LoadedLast' => starsEarned' <= starsEarned]_vars

\* C11 witness: a move was played, without a reload, with the rating already
\* on its floor.
C11_Witness ==
  /\ last.op \in {"handleSquareClick", "onDrop"}
  /\ ~Alerted("reiniciando")
  /\ game.history > 0
  /\ starsEarned = 1

\* C12: in every reachable state the hints used lie between 0 and the length
\* of the active puzzle's solution line, and a step changes them only by one
\* more (a hint request) or back to 0 (a step that ends in a puzzle load).
C12_HintsWithinLine ==
  /\ [](0 <= hintCount /\ hintCount <= Len(ActivePuzzle.solution))
  /\ [][\/ hintCount' = hintCount
        \/ last'.op = "showHint" /\ hintCount' = hintCount + 1
        \/ LoadedLast' /\ hintCount' = 0]_vars

\* C12 witness: the session has just advanced to the puzzle whose solution
\* line is a single move, shorter than that of the puzzle before it.
C12_Witness ==
  /\ last.op = "nextPuzzle"
  /\ currentPuzzleIndex = 1
  /\ Len(ActivePuzzle.solution) < Len(Catalog(Session)[1].solution)
  /\ hintCount = 0

\* C13: a hint request the pool still grants discloses, alone, the move of
\* the solution line at the position of the hints used so far and counts as
\* one hint; the count starts at 0 after a load and no other step that does
\* not load changes it, so the k-th hint since the load discloses move k of
\* the line whatever was played on the board in between.
C13_HintsInOrder ==
  /\ [](LoadedLast => hintCount = 0)
  /\ [][/\ (last'.op = "showHint" /\ hintCount < Len(ActivePuzzle.solution))
           => /\ alerts' = <<[kind |-> "asesoria",
                              text |-> ActivePuzzle.solution[hintCount + 1],
                              quote |-> ""]>>
              /\ hintCount' = hintCount + 1
        /\ (last'.op # "showHint" /\ ~LoadedLast')
           => hintCount' = hintCount]_vars

\* C13 witness: the second hint since the load, requested after a move was
\* played, discloses the second move of the line.
C13_Witness ==
  /\ last.op = "showHint"
  /\ hintCount = 2
  /\ game.history > 0
  /\ alerts = <<[kind |-> "asesoria", text |-> ActivePuzzle.solution[2],
                 quote |-> ""]>>

\* The session a handler enters when the legal targets of the selection hold
\* sq as well, and the case of a click on sq that the engine rejects: the
\* engine never rejects a target it listed itself, so the rejected branch of
\* handleSquareClick is exercised on the handler applied to such a session.
WithTarget(sq) == [Enter(Session) EXCEPT !.legalMoves = @ \cup {sq}]

RejectedClick(sq) ==
  /\ build = "click"
  /\ selectedSquare # NoSquare
  /\ ~move(game, selectedSquare, sq).ok

\* C14: a move attempt the engine rejects mutates nothing.  In the click
\* controller the handler returns the session it entered with, selection and
\* targets included; in the drag controller the drop returns 'snapback',
\* alerts nothing, and leaves position, hints, rating, index and the advance
\* control as they were.
C14_RejectedMoveKeepsState ==
  /\ [](\A sq \in ProbeSquares :
          RejectedClick(sq)
            => handleSquareClick(WithTarget(sq), sq) = WithTarget(sq))
  /\ [][(MoveAttempt /\ ~AcceptedMove)
          => UNCHANGED <<selectedSquare, legalMoves, game, hintCount,
                         starsEarned, currentPuzzleIndex>>]_vars
  /\ [][(build = "drag" /\ MoveAttempt /\ ~AcceptedMove)
          => /\ last'.returned = "snapback"
             /\ alerts' = <<>>
             /\ UNCHANGED <<nextBtn, info, stars, progress,
                            chessBoard>>]_vars

\* C14 witness: after some play a drop was rejected and snapped back.
C14_Witness ==
  /\ last.op = "onDrop"
  /\ last.returned = "snapback"
  /\ last.target # NoSquare
  /\ game.history > 0

C16_TargetsNeverStale ==
  build = "click"
    => IF selectedSquare = NoSquare
         THEN legalMoves = {}
         ELSE /\ game.board[selectedSquare] # NoPiece
              /\ game.board[selectedSquare].color = game.turn
              /\ legalMoves = LegalDestinations(game, selectedSquare)

\* C16 witness: after a move was played a piece with somewhere to go is
\* selected.
C16_Witness ==
  /\ build = "click"
  /\ game.history > 0
  /\ selectedSquare # NoSquare
  /\ legalMoves # {}

\* C17: in the drag controller a drag starts only when the engine does not
\* report the game over and the piece the widget shows on the source belongs
\* to the side to move; and every drop the engine accepts moves a piece of
\* the side to move in a position whose game is not over.
C17_DragOnlyLiveOwnPiece ==
  /\ [][(last'.op = "onDragStart" /\ dragging' # NoSquare)
          => /\ ~game_over(game)
             /\ chessBoard.position[last'.square].color = game.turn]_vars
  /\ [][(build = "drag" /\ AcceptedMove)
          => /\ ~game_over(game)
             /\ game.board[dragging] # NoPiece
             /\ game.board[dragging].color = game.turn]_vars

\* C17 witness: with only the kings left the side to move tried to drag its
\* king and the drag was vetoed.
C17_Witness ==
  /\ last.op = "onDragStart"
  /\ last.returned = "false"
  /\ insufficient_material(game)
  /\ game.board[last.square].color = game.turn

\* C18: after every completed handler the progress indicator shows the
\* active index plus one out of the catalog's size, and the level line names
\* that same puzzle: nextPuzzle refreshes the indicator from the index it has
\* already moved and wrapped.
C18_ProgressNamesActivePuzzle ==
  /\ progress = [puzzle |-> currentPuzzleIndex + 1,
                 de |-> Len(Catalog(Session))]
  /\ info.nivel = progress.puzzle
  /\ info.name = ActivePuzzle.name
  /\ info.mateEn = ActivePuzzle.mateIn

\* C18 witness: an advance from the last puzzle has wrapped, and indicator
\* and level line both show the first puzzle again.
C18_Witness ==
  /\ last.op = "nextPuzzle"
  /\ Alerted("completado")
  /\ progress.puzzle = 1
  /\ info.nivel = 1
  /\ game.history = 0

\* C19: after every completed handler the advance control is visible exactly
\* when the current position is checkmate, and from a solved puzzle (the
\* control is up, which by the first part says the position is checkmate) no
\* step other than nextPuzzle (a square interaction, a hint request) changes
\* the position or hides the control.
C19_AdvanceIffMate ==
  /\ [](nextBtn = "inline-block" <=> in_checkmate(game))
  /\ [][(nextBtn = "inline-block" /\ last'.op # "nextPuzzle")
          => /\ game' = game
             /\ nextBtn' = "inline-block"]_vars

\* C19 witness: on the solved puzzle a piece of the mated side was clicked;
\* it is selected with nowhere to go and the advance control is still up.
C19_Witness ==
  /\ in_checkmate(game)
  /\ last.op = "handleSquareClick"
  /\ selectedSquare = last.square
  /\ legalMoves = {}
  /\ nextBtn = "inline-block"

\* C20: after every completed handler the half-move count of the active
\* position is at most twice the mate distance plus one, and it is above
\* twice the mate distance only when the position is checkmate.
C20_HalfMovesWithinCeiling ==
  /\ game.history <= Ceiling + 1
  /\ (game.history > Ceiling => in_checkmate(game))

\* C20 witness: the mate fell on the half-move right after the ceiling and
\* the position stays on the board at that count.
C20_Witness ==
  /\ game.history = Ceiling + 1
  /\ in_checkmate(game)
  /\ last.op = "handleSquareClick"
  /\ selectedSquare = NoSquare

=============================================================================
